---- MODULE Spec2Model ----
(***************************************************************************)
(* Model of the interactive chat loop of chatbot.py:                       *)
(* AugustaIncentivesChatbot.process_message and the DatabaseManager it     *)
(* drives over one psycopg2 connection; of the batch pipeline of           *)
(* correspondence_finder.py; and of the two main functions.                *)
(***************************************************************************)
EXTENDS Integers, Sequences, FiniteSets, TLC

VARIABLES
    conversation_history, \* self.conversation_history: sequence of turns
    openai_client,        \* self.openai_client is set (an API key was configured)
    pc,                   \* position of the session: "idle", "loop", "exec"
    iteration_count,      \* local of _process_with_iterative_queries
    current_context,      \* local of _process_with_iterative_queries
    original_user_message,\* argument of _process_with_iterative_queries
    ai_response,          \* the completion of the current iteration
    sql_queries,          \* the requests extracted from ai_response
    query_results,        \* all_results of _execute_sql_queries, so far
    response,             \* the value process_message returned last
    raised,               \* the last process_message ended with an exception
    exit_path,            \* the return statement the last process_message took
    status,               \* transaction status of self.connection
    pending,              \* effects written in the open transaction
    committed,            \* effects visible in the store
    store_log,            \* the execute_query calls of the session, in order
    faults,               \* number of statements that failed on their own
    outbound,             \* the messages argument of the last ModelClient call
    history_at_call,      \* conversation_history when that call was made
    completions,          \* what _get_ai_response returned in the current message
    events                \* the external calls of the current message, in order

\* _format_query_results on its own
VARIABLES
    fmt_results,          \* the query_results argument
    fmt_output,           \* the lines it returned
    fmt_done              \* it has returned

format_vars == <<fmt_results, fmt_output, fmt_done>>

\* _extract_sql_queries on its own
VARIABLES
    ext_tokens,           \* the text argument, as its tokens
    ext_queries,          \* the list it returned
    ext_done              \* it has returned

extract_vars == <<ext_tokens, ext_queries, ext_done>>

\* search_companies and search_incentives of database_setup.py
VARIABLES
    dbs_args,             \* the arguments and the state of the store
    dbs_result,           \* what the call returned or raised
    dbs_done              \* the call is over

dbsearch_vars == <<dbs_args, dbs_result, dbs_done>>

\* search_companies_by_keywords on its own
VARIABLES
    search_args,          \* its arguments and the state of the store
    search_result,        \* what it returned and the queries it sent
    search_done           \* it has returned

search_vars == <<search_args, search_result, search_done>>

\* one run of a main function, of chatbot.py or of correspondence_finder.py
VARIABLES
    mode,                 \* "chat" or "batch": which main runs
    main_pc,              \* where the run is
    connection,           \* "none", "open" or "closed": the store connection
    db_status,            \* the state of the transaction of the batch connection
    exit_status,          \* the exit status of the process, once main_pc = "exited"
    startup_failure,      \* ghost: what failed before the work began
    model_calls,          \* ghost: ModelClient calls issued by the run
    store_actions,        \* ghost: statements sent to the store by the run
    chat_turns,           \* messages the user has entered
    incentives,           \* process_all_incentives: the records fetched
    record_index,         \* the number of the record in work
    record_keywords,      \* its keywords
    top_25_companies,     \* its candidates
    timing_data,          \* its timing map, as the set of its keys
    stages_run,           \* ghost: the stages executed for it
    batch_results,        \* the results dict, in insertion order
    batch_raised,         \* an exception is on its way out of the run
    debug_saved,          \* data/correspondence_debug.json was written
    simplified_results,   \* what create_simplified_results returned
    results_saved         \* data/correspondence_results.json was written

record_vars == <<record_keywords, top_25_companies, timing_data, stages_run>>
output_vars == <<debug_saved, simplified_results, results_saved>>
run_vars == <<mode, main_pc, connection, db_status, exit_status,
              startup_failure, model_calls, store_actions, chat_turns,
              incentives, record_index, record_vars, batch_results,
              batch_raised,
              output_vars>>

chat_vars == <<conversation_history, openai_client, pc, iteration_count,
               current_context, original_user_message, ai_response,
               sql_queries, query_results, response, raised, exit_path,
               status, pending, committed, store_log, faults, outbound,
               history_at_call, completions, events>>

\* the variables the chat loop leaves alone
aux_vars == <<format_vars, search_vars, run_vars, extract_vars, dbsearch_vars>>

vars == <<conversation_history, openai_client, pc, iteration_count,
          current_context, original_user_message, ai_response, sql_queries,
          query_results, response, raised, exit_path, status, pending,
          committed, store_log, faults, outbound,
          history_at_call, completions, events, aux_vars>>

(* ---------------------------- bounds ----------------------------------- *)

\* a new message is accepted while the history has at most this many turns
MaxPrior == 4
\* the table the reads of "a" go to holds MaxRows rows
MaxRows == 1
\* at most this many statements of a session fail on their own
MaxFaults == 1
\* _format_query_results is given at most this many results
MaxResults == 2
\* and a result holds at most this many rows
MaxFmtRows == 7
\* a keyword list holds at most this many keywords
MaxKeywords == 3
\* the incentives table holds at most this many records
MaxIncentives == 2
\* a text given to _extract_sql_queries holds at most this many tokens
MaxTokens == 6
\* a table searched by search_companies or search_incentives holds at most
\* this many matching rows
MaxMatches == 3
\* the user enters at most this many messages
MaxTurns == 2

(* -------------------------- program constants -------------------------- *)

max_iterations == 5
HistoryWindow == 10
PreviewRows == 5
\* search_companies_by_keywords: fewer filtered words than this and the
\* keywords are sent as they came
MinWords == 3
\* the default of its limit parameter
DefaultLimit == 25

(* ------------------------------ texts ----------------------------------- *)

\* A text is a record with a kind and a sequence of chunks; a chunk is prose
\* (marker "none") or a fenced block with the language marker that follows
\* the opening fence and a body of tokens (" " is white space).
Prose(t) == [marker |-> "none", body |-> <<t>>]
Fence(m, b) == [marker |-> m, body |-> b]

Plain == [kind |-> "completion", chunks |-> <<Prose("answer")>>]
EmptyFence == [kind |-> "completion",
               chunks |-> <<Prose("see"), Fence("sql", <<" ", " ">>)>>]
Three == [kind |-> "completion",
          chunks |-> <<Fence("sql", <<"SELECT", "a">>), Prose("then"),
                       Fence("SQL", <<" ", "insert", "b">>),
                       Fence("Sql", <<"select", "c", " ">>)>>]

\* a completion whose actions return no rows
Writes == [kind |-> "completion",
           chunks |-> <<Fence("sql", <<"insert", "b">>),
                        Fence("sql", <<"insert", "c">>)>>]

\* what the ModelClient may answer
Completions == {Plain, EmptyFence, Three}

\* what the user may type
UserMessages == {[kind |-> "user", chunks |-> <<Prose("question")>>]}

NoResponse == [kind |-> "nothing", chunks |-> <<>>]

system_prompt == [kind |-> "system_prompt", chunks |-> <<Prose("system")>>]

Turn(r, c) == [role |-> r, content |-> c]

Upper(t) ==
    CASE t = "select" -> "SELECT"
      [] t = "insert" -> "INSERT"
      [] t = "sql" -> "SQL"
      [] t = "Sql" -> "SQL"
      [] OTHER -> t

RECURSIVE lstrip(_)
lstrip(b) == IF b # <<>> /\ Head(b) = " " THEN lstrip(Tail(b)) ELSE b

RECURSIVE rstrip(_)
rstrip(b) ==
    IF b # <<>> /\ b[Len(b)] = " " THEN rstrip(SubSeq(b, 1, Len(b) - 1)) ELSE b

strip(b) == rstrip(lstrip(b))


(* --------------------------- ActionExtractor ---------------------------- *)

\* a build whose pattern lacks re.IGNORECASE
IsSqlFence_exact(c) == c.marker = "sql"

\* re.IGNORECASE on the marker of the pattern ```sql
IsSqlFence(c) == Upper(c.marker) = "SQL"

\* the comprehension's filter: "if match.strip()"
KeepMatch(b) == strip(b) # <<>>

RECURSIVE _extract_sql_queries_chunks(_)
_extract_sql_queries_chunks(cs) ==
    IF cs = <<>> THEN <<>>
    ELSE IF IsSqlFence(Head(cs)) /\ KeepMatch(Head(cs).body)
         THEN <<strip(Head(cs).body)>> \o _extract_sql_queries_chunks(Tail(cs))
         ELSE _extract_sql_queries_chunks(Tail(cs))

_extract_sql_queries(text) == _extract_sql_queries_chunks(text.chunks)

(* ------------------------------ the store ------------------------------- *)

\* the rows cursor.fetchall() finds for a read: table "a" holds MaxRows rows,
\* every other table is empty
StoreRows(query) ==
    IF Len(query) >= 2 /\ query[2] = "a" THEN MaxRows ELSE 0

\* what the server and the driver can do with one statement on its own
Outcomes == {"ok", "server_error", "client_error"}

\* query.strip().upper().startswith('SELECT')
IsSelect(query) ==
    LET q == strip(query) IN q # <<>> /\ Upper(Head(q)) = "SELECT"

\* a build that never commits
NeedsCommit_never(query) == FALSE

\* the else branch of execute_query: self.connection.commit()
NeedsCommit(query) == ~IsSelect(query)

\* connection.commit(): an open transaction becomes visible, an aborted one
\* is rolled back by the server
commit(st, pend, comm) ==
    [status |-> "IDLE", pending |-> {},
     committed |-> IF st = "INERROR" THEN comm ELSE comm \cup pend]

\* DatabaseManager.execute_query on a connection in state (st, pend, comm);
\* o is the outcome the statement has on its own, n the rows a read finds,
\* id names the effect of the statement.
execute_query(query, o, n, id, st, pend, comm) ==
    IF o = "client_error"
    THEN \* the driver rejects the statement before it is sent
         [success |-> FALSE, results |-> <<>>, error |-> "client_error",
          status |-> st, pending |-> pend, committed |-> comm]
    ELSE IF st = "INERROR"
    THEN \* current transaction is aborted, commands ignored
         [success |-> FALSE, results |-> <<>>, error |-> "transaction_aborted",
          status |-> st, pending |-> pend, committed |-> comm]
    ELSE IF o = "server_error"
    THEN [success |-> FALSE, results |-> <<>>, error |-> "server_error",
          status |-> "INERROR",
          pending |-> IF IsSelect(query) THEN pend ELSE pend \cup {id},
          committed |-> comm]
    ELSE LET pend1 == IF IsSelect(query) THEN pend ELSE pend \cup {id} IN
         IF ~NeedsCommit(query)
         THEN \* cursor.fetchall()
              [success |-> TRUE,
               results |-> IF IsSelect(query) THEN [i \in 1..n |-> i] ELSE <<>>,
               error |-> "", status |-> "INTRANS", pending |-> pend1,
               committed |-> comm]
         ELSE LET c == commit("INTRANS", pend1, comm) IN
              [success |-> TRUE, results |-> <<>>, error |-> "",
               status |-> c.status, pending |-> c.pending,
               committed |-> c.committed]

(* ---------------------------- ActionExecutor ---------------------------- *)

\* the dict appended to all_results for one query
ResultEntry(query, r) ==
    IF r.success
    THEN [query |-> query, success |-> TRUE, results |-> r.results,
          row_count |-> Len(r.results), error |-> ""]
    ELSE [query |-> query, success |-> FALSE, results |-> <<>>,
          row_count |-> 0, error |-> r.error]

\* a build that leaves the loop at the first failed query
ExecDone_abort(queries, results) ==
    \/ Len(results) >= Len(queries)
    \/ (results # <<>> /\ ~results[Len(results)].success)

\* "for query in queries" has run out
ExecDone(queries, results) == Len(results) >= Len(queries)

(* ---------------------------- ContextBuilder ---------------------------- *)

Line(l, n, e) == [line |-> l, n |-> n, error |-> e]

Min(a, b) == IF a < b THEN a ELSE b

\* a build that announces the rows left out one row too early
FormatOne_ge(result) ==
    IF result.success
    THEN IF result.results # <<>>
         THEN <<Line("rows", result.row_count, "")>>
              \o [i \in 1..Min(Len(result.results), PreviewRows) |->
                    Line("row", result.results[i], "")]
              \o (IF result.row_count >= PreviewRows
                  THEN <<Line("more", result.row_count - PreviewRows, "")>>
                  ELSE <<>>)
         ELSE <<Line("no_rows", 0, "")>>
    ELSE <<Line("failed", 0, result.error)>>

\* a build that says nothing about a success without rows
FormatOne_silent(result) ==
    IF result.success
    THEN IF result.results # <<>>
         THEN <<Line("rows", result.row_count, "")>>
              \o [i \in 1..Min(Len(result.results), PreviewRows) |->
                    Line("row", result.results[i], "")]
              \o (IF result.row_count > PreviewRows
                  THEN <<Line("more", result.row_count - PreviewRows, "")>>
                  ELSE <<>>)
         ELSE <<>>
    ELSE <<Line("failed", 0, result.error)>>

\* the lines of one result
FormatOne(result) ==
    IF result.success
    THEN IF result.results # <<>>
         THEN <<Line("rows", result.row_count, "")>>
              \o [i \in 1..Min(Len(result.results), PreviewRows) |->
                    Line("row", result.results[i], "")]
              \o (IF result.row_count > PreviewRows
                  THEN <<Line("more", result.row_count - PreviewRows, "")>>
                  ELSE <<>>)
         ELSE <<Line("no_rows", 0, "")>>
    ELSE <<Line("failed", 0, result.error)>>

RECURSIVE _format_query_results(_)
_format_query_results(rs) ==
    IF rs = <<>> THEN <<>>
    ELSE FormatOne(Head(rs)) \o _format_query_results(Tail(rs))

decision_message(query_output, original, ic) ==
    [kind |-> "decision", query_output |-> query_output, original |-> original,
     iteration_count |-> ic, max_iterations |-> max_iterations]

final_message(original) ==
    [kind |-> "final_prompt", original |-> original,
     max_iterations |-> max_iterations]

(* ----------------------------- ModelClient ------------------------------ *)

NoClientText == [kind |-> "no_client", chunks |-> <<Prose("OpenAI API not available")>>]
ErrorText == [kind |-> "error", chunks |-> <<Prose("Error getting AI response")>>]

\* a build that sends the whole history
RecentHistory_all(h) == h

\* self.conversation_history[-10:]
RecentHistory(h) ==
    IF Len(h) <= HistoryWindow THEN h
    ELSE SubSeq(h, Len(h) - HistoryWindow + 1, Len(h))

\* the messages list _get_ai_response builds
BuildMessages(user_message, h) ==
    <<Turn("system", system_prompt), Turn("user", user_message)>>
    \o RecentHistory(h)

\* a build without the except clause
OnModelFailure_propagate == [text |-> NoResponse, raised |-> TRUE]

\* the except clause of _get_ai_response
OnModelFailure == [text |-> ErrorText, raised |-> FALSE]

\* the API call raised (transport, authentication, rate limit)
ModelFailure == [kind |-> "failure", chunks |-> <<>>]

\* _get_ai_response; o is a completion or ModelFailure
_get_ai_response(has_client, o) ==
    IF ~has_client THEN [text |-> NoClientText, raised |-> FALSE, called |-> FALSE]
    ELSE IF o = ModelFailure
    THEN [text |-> OnModelFailure.text, raised |-> OnModelFailure.raised,
          called |-> TRUE]
    ELSE [text |-> o, raised |-> FALSE, called |-> TRUE]

ModelOutcomes == Completions \cup {ModelFailure}


(* ----------------------------- Orchestrator ----------------------------- *)

\* a build that trims the stored history to the window it sends
AppendTurn_trim(h, t) == Append(RecentHistory(h), t)

\* a build that stores the turns of the user only
AppendTurn_user(h, t) == IF t.role = "user" THEN Append(h, t) ELSE h

\* self.conversation_history.append(turn)
AppendTurn(h, t) == Append(h, t)

\* a build whose loop test is off by one
LoopGuard_le(ic) == ic <= max_iterations

\* while iteration_count < max_iterations
LoopGuard(ic) == ic < max_iterations

\* a build that executes whatever the extractor returned
HasActions_always(queries) == TRUE

\* "if not sql_queries" is false
HasActions(queries) == queries # <<>>

\* a build that repeats the last context in the call after the loop
FinalContext_repeat(original) == original

\* the context of the call after the loop
FinalContext(original) == final_message(original)

loop_vars == <<iteration_count, current_context, original_user_message>>
store_vars == <<status, pending, committed, store_log, faults>>
call_vars == <<outbound, history_at_call>>

\* _format_query_results has not been called
FormatIdle ==
    /\ fmt_results = <<>>
    /\ fmt_output = <<>>
    /\ fmt_done = FALSE

\* search_companies_by_keywords has not been called
SearchIdle ==
    /\ search_args = [keywords |-> <<>>]
    /\ search_result = [companies |-> <<>>]
    /\ search_done = FALSE

\* no main function is running
RunIdle ==
    /\ mode = "none"
    /\ main_pc = "off"
    /\ connection = "none"
    /\ db_status = "IDLE"
    /\ exit_status = 0
    /\ startup_failure = "none"
    /\ model_calls = 0
    /\ store_actions = 0
    /\ chat_turns = 0
    /\ incentives = <<>>
    /\ record_index = 0
    /\ record_keywords = <<>>
    /\ top_25_companies = <<>>
    /\ timing_data = {}
    /\ stages_run = {}
    /\ batch_results = <<>>
    /\ batch_raised = FALSE
    /\ debug_saved = FALSE
    /\ simplified_results = <<>>
    /\ results_saved = FALSE

\* _extract_sql_queries has not been called on its own
ExtractIdle ==
    /\ ext_tokens = <<>>
    /\ ext_queries = <<>>
    /\ ext_done = FALSE

\* neither search method of database_setup.py has been called
DbSearchIdle ==
    /\ dbs_args = [search_type |-> "fulltext"]
    /\ dbs_result = [raised |-> "none"]
    /\ dbs_done = FALSE

\* the other programs are not running
AuxIdle == FormatIdle /\ SearchIdle /\ RunIdle /\ ExtractIdle /\ DbSearchIdle

\* no chat session is running
ChatIdle ==
    /\ conversation_history = <<>>
    /\ openai_client = FALSE
    /\ pc = "off"
    /\ iteration_count = 0
    /\ current_context = NoResponse
    /\ original_user_message = NoResponse
    /\ ai_response = NoResponse
    /\ sql_queries = <<>>
    /\ query_results = <<>>
    /\ response = NoResponse
    /\ raised = FALSE
    /\ exit_path = "none"
    /\ status = "IDLE"
    /\ pending = {}
    /\ committed = {}
    /\ store_log = <<>>
    /\ faults = 0
    /\ outbound = <<>>
    /\ history_at_call = <<>>
    /\ completions = <<>>
    /\ events = <<>>

Init ==
    /\ AuxIdle
    /\ conversation_history = <<>>
    /\ openai_client \in BOOLEAN
    /\ pc = "idle"
    /\ iteration_count = 0
    /\ current_context = NoResponse
    /\ original_user_message = NoResponse
    /\ ai_response = NoResponse
    /\ sql_queries = <<>>
    /\ query_results = <<>>
    /\ response = NoResponse
    /\ raised = FALSE
    /\ exit_path = "none"
    /\ status = "IDLE"
    /\ pending = {}
    /\ committed = {}
    /\ store_log = <<>>
    /\ faults = 0
    /\ outbound = <<>>
    /\ history_at_call = <<>>
    /\ completions = <<>>
    /\ events = <<>>

\* process_message up to the first test of the while condition
ProcessMessage(m) ==
    /\ pc = "idle"
    /\ Len(conversation_history) <= MaxPrior
    /\ conversation_history' = AppendTurn(conversation_history, Turn("user", m))
    /\ original_user_message' = m
    /\ iteration_count' = 0
    /\ current_context' = m
    /\ ai_response' = NoResponse
    /\ sql_queries' = <<>>
    /\ query_results' = <<>>
    /\ response' = NoResponse
    /\ raised' = FALSE
    /\ exit_path' = "none"
    /\ completions' = <<>>
    /\ events' = <<>>
    /\ pc' = "loop"
    /\ UNCHANGED openai_client
    /\ UNCHANGED call_vars
    /\ UNCHANGED store_vars
    /\ UNCHANGED aux_vars

\* the ModelClient call inside _get_ai_response, as the caller sees it
CallModel(context, r) ==
    /\ outbound' = IF r.called
                   THEN BuildMessages(context, conversation_history)
                   ELSE outbound
    /\ history_at_call' = IF r.called THEN conversation_history
                          ELSE history_at_call
    /\ events' = IF r.called THEN Append(events, "model") ELSE events
    /\ completions' = IF r.raised THEN completions
                      ELSE Append(completions, r.text)

\* one pass of the loop body up to the test "if not sql_queries"
GetAIResponse(o) ==
    /\ pc = "loop"
    /\ LoopGuard(iteration_count)
    /\ LET r == _get_ai_response(openai_client, o)
           queries == _extract_sql_queries(r.text)
       IN /\ iteration_count' = iteration_count + 1
          /\ CallModel(current_context, r)
          /\ IF r.raised
             THEN /\ raised' = TRUE
                  /\ exit_path' = "exception"
                  /\ pc' = "idle"
                  /\ UNCHANGED <<conversation_history, ai_response, sql_queries,
                                 response>>
             ELSE /\ conversation_history' =
                        AppendTurn(conversation_history, Turn("assistant", r.text))
                  /\ ai_response' = r.text
                  /\ sql_queries' = queries
                  /\ raised' = FALSE
                  /\ IF HasActions(queries)
                     THEN /\ pc' = "exec"
                          /\ UNCHANGED <<response, exit_path>>
                     ELSE /\ pc' = "idle"
                          /\ response' = r.text
                          /\ exit_path' = "no_actions"
    /\ query_results' = <<>>
    /\ UNCHANGED <<openai_client, current_context, original_user_message>>
    /\ UNCHANGED store_vars
    /\ UNCHANGED aux_vars

\* one pass of the loop of _execute_sql_queries
ExecuteQuery(o) ==
    /\ pc = "exec"
    /\ ~ExecDone(sql_queries, query_results)
    /\ o # "ok" => faults < MaxFaults
    /\ LET query == sql_queries[Len(query_results) + 1]
           id == Len(store_log) + 1
           r == execute_query(query, o, StoreRows(query), id, status, pending,
                              committed)
       IN /\ faults' = IF o = "ok" THEN faults ELSE faults + 1
          /\ query_results' = Append(query_results, ResultEntry(query, r))
          /\ status' = r.status
          /\ pending' = r.pending
          /\ committed' = r.committed
          /\ store_log' = Append(store_log,
                 [query |-> query, success |-> r.success, error |-> r.error,
                  alone |-> (o = "ok")])
    /\ events' = Append(events, "store")
    /\ UNCHANGED <<conversation_history, openai_client, pc, ai_response,
                   sql_queries, response, raised, exit_path, completions>>
    /\ UNCHANGED loop_vars
    /\ UNCHANGED call_vars
    /\ UNCHANGED aux_vars

\* the loop body after _execute_sql_queries returned
Decide ==
    /\ pc = "exec"
    /\ ExecDone(sql_queries, query_results)
    /\ LET query_output == _format_query_results(query_results)
           dm == decision_message(query_output, original_user_message,
                                  iteration_count)
       IN IF query_output = <<>>
          THEN /\ response' = ai_response
               /\ exit_path' = "empty_feedback"
               /\ pc' = "idle"
               /\ UNCHANGED <<conversation_history, current_context>>
          ELSE /\ current_context' = dm
               /\ conversation_history' =
                     AppendTurn(conversation_history, Turn("user", dm))
               /\ pc' = "loop"
               /\ UNCHANGED <<response, exit_path>>
    /\ UNCHANGED <<openai_client, iteration_count, original_user_message,
                   ai_response, sql_queries, query_results, raised,
                   completions, events>>
    /\ UNCHANGED call_vars
    /\ UNCHANGED store_vars
    /\ UNCHANGED aux_vars

\* the statements after the loop
FinalCall(o) ==
    /\ pc = "loop"
    /\ ~LoopGuard(iteration_count)
    /\ LET fm == FinalContext(original_user_message)
           r == _get_ai_response(openai_client, o)
       IN /\ CallModel(fm, r)
          /\ pc' = "idle"
          /\ IF r.raised
             THEN /\ raised' = TRUE
                  /\ exit_path' = "exception"
                  /\ UNCHANGED <<conversation_history, response>>
             ELSE /\ conversation_history' =
                        AppendTurn(AppendTurn(conversation_history,
                                              Turn("user", fm)),
                                   Turn("assistant", r.text))
                  /\ response' = r.text
                  /\ raised' = FALSE
                  /\ exit_path' = "forced_final"
    /\ UNCHANGED <<openai_client, ai_response, sql_queries, query_results>>
    /\ UNCHANGED loop_vars
    /\ UNCHANGED store_vars
    /\ UNCHANGED aux_vars

Next ==
    \/ \E m \in UserMessages : ProcessMessage(m)
    \/ \E o \in ModelOutcomes : GetAIResponse(o)
    \/ \E o \in Outcomes : ExecuteQuery(o)
    \/ Decide
    \/ \E o \in ModelOutcomes : FinalCall(o)

Spec == Init /\ [][Next]_vars

\* the session runs a started message to its end
FairSpec == Spec /\ WF_vars(Next)

TypeOK ==
    /\ pc \in {"idle", "loop", "exec"}
    /\ iteration_count \in 0..(max_iterations + 1)
    /\ status \in {"IDLE", "INTRANS", "INERROR"}


(* ------------------------------ properties ------------------------------ *)

Last(q) == q[Len(q)]

IsPrefix(a, b) == Len(a) <= Len(b) /\ SubSeq(b, 1, Len(a)) = a

\* the ModelClient calls of the current message
ModelCalls == Len(SelectSeq(events, LAMBDA e : e = "model"))

\* the store calls of the current message
StoreCalls == Len(SelectSeq(events, LAMBDA e : e = "store"))

\* the text carries at least one action directive
ContainsAction(text) ==
    \E i \in 1..Len(text.chunks) :
        Upper(text.chunks[i].marker) = "SQL" /\ strip(text.chunks[i].body) # <<>>

\* C1: one process_message makes at most max_iterations + 1 ModelClient
\* calls (the loop test is passed at most max_iterations times), and a
\* started message always comes to its end.
C1_BoundedModelCalls ==
    /\ [](ModelCalls <= max_iterations + 1 /\ iteration_count <= max_iterations)
    /\ (pc # "idle") ~> (pc = "idle")

C1_Witness ==
    pc = "idle" /\ ModelCalls = max_iterations + 1

\* the first max_iterations completions of the message all carry an action
AllCarryActions ==
    /\ Len(completions) >= max_iterations
    /\ \A i \in 1..max_iterations : ContainsAction(completions[i])

\* the requests carried by the first k completions of the message
RECURSIVE RequestsIn(_)
RequestsIn(k) ==
    IF k = 0 THEN 0
    ELSE RequestsIn(k - 1) + Len(_extract_sql_queries(completions[k]))

\* C2: when each of the first max_iterations completions carries an action,
\* the message ends with exactly one more ModelClient call, made with the
\* final-iteration prompt; its output is the answer, whatever it contains,
\* and no store call follows it.
C2_ForcedFinalCall ==
    (pc = "idle" /\ AllCarryActions) =>
        /\ exit_path = "forced_final"
        /\ Len(completions) = max_iterations + 1
        /\ ModelCalls = max_iterations + 1
        /\ outbound[2] = Turn("user", final_message(original_user_message))
        /\ response = completions[max_iterations + 1]
        /\ Last(events) = "model"
        /\ StoreCalls = RequestsIn(max_iterations)

C2_Witness ==
    /\ pc = "idle"
    /\ AllCarryActions
    /\ ContainsAction(response)
    /\ StoreCalls = 3 * max_iterations
    /\ Len(_extract_sql_queries(response)) = 3

\* C3: after a completion the loop goes on to the executor exactly when the
\* completion carries an action; without one, that completion is returned
\* at once, and a returned message makes no further store or model call.
C3_ActionsIffExtracted ==
    [][/\ (pc = "loop" /\ Len(completions') = Len(completions) + 1
           /\ iteration_count' = iteration_count + 1) =>
            LET c == Last(completions') IN
            /\ (pc' = "exec") <=> ContainsAction(c)
            /\ ~ContainsAction(c) =>
                 /\ pc' = "idle"
                 /\ response' = c
                 /\ store_log' = store_log
       /\ (pc = "idle" /\ pc' = "idle") => UNCHANGED <<events, store_log>>
       /\ (pc = "idle" /\ pc' # "idle") => events' = <<>>]_vars

C3_Witness ==
    /\ pc = "idle"
    /\ exit_path = "no_actions"
    /\ iteration_count > 1
    /\ response = Last(completions)
    /\ Last(events) = "model"

\* C4: the answer process_message returns never carries an action directive.
C4_AnswerHasNoAction ==
    (pc = "idle" /\ exit_path \in {"no_actions", "empty_feedback", "forced_final"})
        => ~ContainsAction(response)

\* the store calls of the current batch
BatchLog ==
    SubSeq(store_log, Len(store_log) - Len(query_results) + 1, Len(store_log))

\* C5: _execute_sql_queries submits every request once, in extraction order,
\* and returns one result per request in that order, failed exactly where
\* the store call failed and with its error message; a failure does not end
\* the batch.
C5_OneResultPerRequest ==
    /\ Len(query_results) <= Len(sql_queries)
    /\ Len(query_results) <= Len(store_log)
    /\ pc # "exec" => Len(query_results) = Len(sql_queries)
    /\ pc = "exec" =>
         /\ events # <<>>
         /\ \A k \in 1..Len(events) :
                k > Len(events) - Len(query_results) <=>
                    (events[k] = "store" /\
                     \A j \in k..Len(events) : events[j] = "store")
    /\ \A i \in 1..Len(query_results) :
         /\ query_results[i].query = sql_queries[i]
         /\ BatchLog[i].query = sql_queries[i]
         /\ query_results[i].success = BatchLog[i].success
         /\ ~query_results[i].success =>
              query_results[i].error = BatchLog[i].error

C5_Witness ==
    /\ pc = "loop"
    /\ Len(query_results) = 3
    /\ query_results[1].success
    /\ ~query_results[2].success
    /\ query_results[3].success

\* C6: an action that would succeed on its own succeeds also after an
\* earlier action of the session failed.
C6_FailureIsolated ==
    \A i \in 1..Len(store_log) : store_log[i].alone => store_log[i].success

\* the store calls that are non-read actions
WriteExecs == {i \in 1..Len(store_log) : ~IsSelect(store_log[i].query)}

\* C7: a non-read action that succeeded is committed before anything else is
\* submitted, and no effect of a failed action is ever visible in the store.
C7_CommitOnSuccessOnly ==
    \A i \in WriteExecs :
        /\ store_log[i].success => (i \in committed /\ i \notin pending)
        /\ ~store_log[i].success => i \notin committed

C7_Witness ==
    \E i, j \in WriteExecs :
        /\ i < j
        /\ ~store_log[i].success
        /\ store_log[j].success
        /\ j \in committed

\* C8 as stated: a call carries the system turn and at most the 10 most
\* recent turns of the history, and nothing else.
C8_SystemPlusTenOnly ==
    outbound # <<>> =>
        /\ Len(outbound) <= HistoryWindow + 1
        /\ outbound[1] = Turn("system", system_prompt)
        /\ \A k \in 2..Len(outbound) :
               \E j \in 1..Len(history_at_call) :
                   /\ j > Len(history_at_call) - HistoryWindow
                   /\ outbound[k] = history_at_call[j]

\* C8 amended: a call carries the system turn, one user turn with the current
\* context, and the min(10, n) most recent of the n turns of the history, in
\* order, and nothing else; the turns left out stay in conversation_history.
C8_SystemContextPlusTen ==
    outbound # <<>> =>
        LET n == Len(history_at_call)
            w == IF n < HistoryWindow THEN n ELSE HistoryWindow
        IN /\ Len(outbound) = 2 + w
           /\ outbound[1] = Turn("system", system_prompt)
           /\ outbound[2].role = "user"
           /\ outbound[2].content.kind \in {"user", "decision", "final_prompt"}
           /\ \A k \in 1..w : outbound[2 + k] = history_at_call[n - w + k]
           /\ IsPrefix(history_at_call, conversation_history)

C8_Witness ==
    /\ outbound # <<>>
    /\ Len(history_at_call) >= HistoryWindow + 2
    /\ Len(outbound) = HistoryWindow + 2
    /\ outbound[3] = history_at_call[Len(history_at_call) - HistoryWindow + 1]

\* C9: every step leaves the turns already in conversation_history where
\* they are and only adds turns at the end.
C9_AppendOnly ==
    [][IsPrefix(conversation_history, conversation_history')]_vars

C9_Witness ==
    /\ pc = "idle"
    /\ Len(conversation_history) > MaxPrior + HistoryWindow

\* C10: a failed ModelClient call, or a missing client, never raises out of
\* process_message: the error text is the answer and the session is ready for
\* the next message.
C10_ModelFailureIsAnswer ==
    /\ ~raised
    /\ exit_path # "exception"
    /\ (completions # <<>> /\ Last(completions).kind \in {"error", "no_client"}) =>
          /\ pc = "idle"
          /\ response = Last(completions)
          /\ Last(conversation_history) = Turn("assistant", response)

C10_Witness ==
    /\ pc = "idle"
    /\ response = Plain
    /\ \E i \in 1..Len(conversation_history) :
           conversation_history[i].content.kind = "error"


(* ------------------- _format_query_results on its own ------------------- *)

\* the statement the results below are results of
ProbeQuery == <<"SELECT", "a">>

\* the result dicts _execute_sql_queries can hand over
FormatResults ==
    {ResultEntry(ProbeQuery,
                 [success |-> TRUE, results |-> [i \in 1..n |-> i], error |-> ""]) :
        n \in 0..MaxFmtRows}
    \cup
    {ResultEntry(ProbeQuery, [success |-> FALSE, results |-> <<>>, error |-> e]) :
        e \in {"server_error", "client_error", "transaction_aborted"}}

SeqsUpTo(S, n) == UNION {[1..k -> S] : k \in 0..n}

FormatInit ==
    /\ ChatIdle
    /\ SearchIdle
    /\ RunIdle
    /\ ExtractIdle
    /\ DbSearchIdle
    /\ fmt_results \in SeqsUpTo(FormatResults, MaxResults)
    /\ fmt_output = <<>>
    /\ fmt_done = FALSE

\* one call of _format_query_results
FormatQueryResults ==
    /\ ~fmt_done
    /\ fmt_output' = _format_query_results(fmt_results)
    /\ fmt_done' = TRUE
    /\ UNCHANGED <<fmt_results, chat_vars, search_vars, run_vars, extract_vars,
                   dbsearch_vars>>

FormatNext == FormatQueryResults

FormatSpec == FormatInit /\ [][FormatNext]_vars

\* the number of lines the rendering rules give one result
SegmentLen(r) ==
    IF ~r.success \/ r.row_count = 0 THEN 1
    ELSE 1 + (IF r.row_count < 5 THEN r.row_count ELSE 5)
           + (IF r.row_count > 5 THEN 1 ELSE 0)

\* the number of lines before those of the i-th result
RECURSIVE SegmentStart(_, _)
SegmentStart(rs, i) ==
    IF i = 1 THEN 0 ELSE SegmentStart(rs, i - 1) + SegmentLen(rs[i - 1])

\* C20: _format_query_results renders the results in order: a success with
\* rows as a line giving the row count, the first min(5, row_count) rows,
\* and a line "and N-5 more rows" exactly when row_count > 5; a success
\* without rows as "no rows returned"; a failure as one line with its error.
C20_RenderingRules ==
    fmt_done =>
        /\ Len(fmt_output) = SegmentStart(fmt_results, Len(fmt_results) + 1)
        /\ \A i \in 1..Len(fmt_results) :
             LET r == fmt_results[i]
                 at == SegmentStart(fmt_results, i)
                 shown == IF r.row_count < 5 THEN r.row_count ELSE 5
             IN /\ ~r.success => fmt_output[at + 1] = Line("failed", 0, r.error)
                /\ (r.success /\ r.row_count = 0) =>
                       fmt_output[at + 1] = Line("no_rows", 0, "")
                /\ (r.success /\ r.row_count > 0) =>
                       /\ fmt_output[at + 1] = Line("rows", r.row_count, "")
                       /\ \A k \in 1..shown :
                              fmt_output[at + 1 + k] = Line("row", r.results[k], "")
                       /\ r.row_count > 5 =>
                              fmt_output[at + 2 + shown] =
                                  Line("more", r.row_count - 5, "")

C20_Witness ==
    /\ fmt_done
    /\ Len(fmt_results) = 2
    /\ fmt_results[1].row_count = 7
    /\ ~fmt_results[2].success
    /\ Len(fmt_output) = 8
    /\ fmt_output[7] = Line("more", 2, "")


(* ------------------- search_companies_by_keywords ----------------------- *)

\* the words a keyword can be made of
Vocabulary ==
    {"de", "para", "TI", "transporte", "Transporte", "logistica", "energia"}

\* word.lower()
lower(word) ==
    CASE word = "Transporte" -> "transporte"
      [] word = "TI" -> "ti"
      [] OTHER -> word

\* len(word)
WordLen(word) ==
    CASE word \in {"de", "TI"} -> 2
      [] word = "para" -> 4
      [] word = "energia" -> 7
      [] word = "logistica" -> 9
      [] OTHER -> 10

\* the stop words of search_companies_by_keywords that the keywords here use
stop_words == {"de", "da", "do", "para", "com", "em", "the", "and", "of"}

\* the keywords the ModelClient can name; a keyword is the sequence of the
\* words keyword.split() finds in it
KeywordPhrases ==
    {<<"de", "transporte">>, <<"logistica">>, <<"TI", "energia">>,
     <<"Transporte">>, <<"para">>, <<"TI">>}

\* the loop that fills individual_words
RECURSIVE IndividualWords(_)
IndividualWords(keywords) ==
    IF keywords = <<>> THEN <<>>
    ELSE Head(keywords) \o IndividualWords(Tail(keywords))

\* a build that keeps words of two letters
IsMeaningful_ge(word, seen) ==
    /\ lower(word) \notin seen
    /\ lower(word) \notin stop_words
    /\ WordLen(word) >= 2

\* the test of the filter loop
IsMeaningful(word, seen) ==
    /\ lower(word) \notin seen
    /\ lower(word) \notin stop_words
    /\ WordLen(word) > 2

\* the loop that fills unique_words
RECURSIVE UniqueWords(_, _)
UniqueWords(words, seen) ==
    IF words = <<>> THEN <<>>
    ELSE LET word == Head(words) IN
         IF IsMeaningful(word, seen)
         THEN <<word>> \o UniqueWords(Tail(words), seen \cup {lower(word)})
         ELSE UniqueWords(Tail(words), seen)

\* a build that always searches for the filtered tokens
SearchTerms_filtered(keywords, unique_words) ==
    [i \in 1..Len(unique_words) |-> <<unique_words[i]>>]

\* the terms joined by " | " into search_terms
SearchTerms(keywords, unique_words) ==
    IF Len(unique_words) < MinWords THEN keywords
    ELSE [i \in 1..Len(unique_words) |-> <<unique_words[i]>>]

\* the companies table: how often the text of company c holds the lexeme w
\* (table "A" is well filled, table "B" holds one matching company)
Companies == 1..4

TermFrequency(table, c, w) ==
    CASE table = "A" /\ c = 1 /\ w = "transporte" -> 2
      [] table = "A" /\ c = 1 /\ w = "logistica" -> 1
      [] table = "A" /\ c = 2 /\ w = "transporte" -> 1
      [] table = "A" /\ c = 2 /\ w = "logistica" -> 2
      [] table = "A" /\ c = 3 /\ w = "energia" -> 1
      [] table = "B" /\ c = 3 /\ w = "energia" -> 1
      [] table = "B" /\ c = 3 /\ w = "transporte" -> 2
      [] table = "B" /\ c = 4 /\ w = "ti" -> 1
      [] OTHER -> 0

\* to_tsquery rejects a term that is not one word
ValidTsQuery(terms) == \A i \in 1..Len(terms) : Len(terms[i]) = 1

\* the lexemes of a valid query
Lexemes(terms) == {lower(terms[i][1]) : i \in 1..Len(terms)}

RECURSIVE SumFrequency(_, _, _)
SumFrequency(table, c, ws) ==
    IF ws = {} THEN 0
    ELSE LET w == CHOOSE x \in ws : TRUE IN
         TermFrequency(table, c, w) + SumFrequency(table, c, ws \ {w})

\* ts_rank of company c for the disjunction of the terms
Rank(table, c, terms) == SumFrequency(table, c, Lexemes(terms))

\* ORDER BY relevance_score DESC, company_name ASC
RECURSIVE OrderRows(_)
OrderRows(rows) ==
    IF rows = {} THEN <<>>
    ELSE LET top == CHOOSE r \in rows : \A q \in rows :
                       \/ r.relevance_score > q.relevance_score
                       \/ (r.relevance_score = q.relevance_score /\ r.id <= q.id)
         IN <<top>> \o OrderRows(rows \ {top})

\* seq[:n]
Take(seq, n) == SubSeq(seq, 1, Min(Len(seq), n))

\* the rows the SELECT of search_companies_by_keywords returns
SelectCompanies(table, terms, limit) ==
    Take(OrderRows({[id |-> c, relevance_score |-> Rank(table, c, terms)] :
                       c \in {x \in Companies : Rank(table, x, terms) > 0}}),
         limit)

\* cursor.execute and cursor.fetchall for one query on a connection whose
\* transaction is in state st; fails says the server fails on this query
RunQuery(table, terms, limit, st, fails) ==
    IF st = "INERROR" \/ fails \/ ~ValidTsQuery(terms)
    THEN [terms |-> terms, ok |-> FALSE, rows |-> <<>>, status |-> "INERROR"]
    ELSE [terms |-> terms, ok |-> TRUE,
          rows |-> SelectCompanies(table, terms, limit), status |-> "INTRANS"]

\* a build whose merge keeps the score seen last
MergeRow_last(all_companies, company) ==
    IF \E i \in 1..Len(all_companies) : all_companies[i].id = company.id
    THEN [i \in 1..Len(all_companies) |->
            IF all_companies[i].id = company.id
            THEN company ELSE all_companies[i]]
    ELSE Append(all_companies, company)

\* the body of "for company in keyword_companies"; all_companies is the dict
\* in insertion order
MergeRow(all_companies, company) ==
    IF \E i \in 1..Len(all_companies) : all_companies[i].id = company.id
    THEN [i \in 1..Len(all_companies) |->
            IF /\ all_companies[i].id = company.id
               /\ company.relevance_score > all_companies[i].relevance_score
            THEN company ELSE all_companies[i]]
    ELSE Append(all_companies, company)

RECURSIVE MergeRows(_, _)
MergeRows(all_companies, rows) ==
    IF rows = <<>> THEN all_companies
    ELSE MergeRows(MergeRow(all_companies, Head(rows)), Tail(rows))

\* a build that leaves the merged rows in the order of their insertion
SortByScore_none(companies) == companies

\* companies.sort(key=relevance_score, reverse=True): stable
RECURSIVE SortByScore(_)
SortByScore(companies) ==
    IF companies = <<>> THEN <<>>
    ELSE LET i == CHOOSE k \in 1..Len(companies) :
                     /\ \A j \in 1..Len(companies) :
                           companies[j].relevance_score <= companies[k].relevance_score
                     /\ \A j \in 1..(k - 1) :
                           companies[j].relevance_score < companies[k].relevance_score
         IN <<companies[i]>>
            \o SortByScore(SubSeq(companies, 1, i - 1)
                           \o SubSeq(companies, i + 1, Len(companies)))

\* if len(companies) < limit // 2
NeedsFallback(companies, limit) == Len(companies) < limit \div 2

\* "for word in unique_words" from the k-th word on; queries is the log of
\* the queries sent so far, fail_at the number of the query the server fails
RECURSIVE FlexibleSearch(_, _, _, _, _, _, _, _)
FlexibleSearch(table, unique_words, k, limit, st, fail_at, all_companies, queries) ==
    IF k > Len(unique_words)
    THEN [ok |-> TRUE, all_companies |-> all_companies, queries |-> queries,
          status |-> st]
    ELSE LET q == RunQuery(table, <<<<unique_words[k]>>>>, limit, st,
                           fail_at = Len(queries) + 1)
         IN IF ~q.ok
            THEN [ok |-> FALSE, all_companies |-> all_companies,
                  queries |-> Append(queries, q), status |-> q.status]
            ELSE FlexibleSearch(table, unique_words, k + 1, limit, q.status,
                                fail_at, MergeRows(all_companies, q.rows),
                                Append(queries, q))

\* search_companies_by_keywords(keywords, limit) on the given table, with
\* the transaction of the connection in state st
search_companies_by_keywords(keywords, limit, table, st, fail_at) ==
    LET unique_words == UniqueWords(IndividualWords(keywords), {})
        none == [companies |-> <<>>, unique_words |-> unique_words,
                 queries |-> <<>>, fallback |-> FALSE, raised |-> FALSE,
                 status |-> st]
    IN IF keywords = <<>> THEN [none EXCEPT !.unique_words = <<>>]
       ELSE LET primary == RunQuery(table, SearchTerms(keywords, unique_words),
                                    limit, st, fail_at = 1)
            IN IF ~primary.ok
               THEN [none EXCEPT !.queries = <<primary>>, !.raised = TRUE,
                                 !.status = primary.status]
               ELSE IF ~NeedsFallback(primary.rows, limit)
               THEN [none EXCEPT !.companies = primary.rows,
                                 !.queries = <<primary>>,
                                 !.status = primary.status]
               ELSE LET f == FlexibleSearch(table, unique_words, 1, limit,
                                            primary.status, fail_at, <<>>,
                                            <<primary>>)
                    IN IF ~f.ok
                       THEN [none EXCEPT !.queries = f.queries,
                                         !.fallback = TRUE, !.raised = TRUE,
                                         !.status = f.status]
                       ELSE [none EXCEPT
                               !.companies =
                                   Take(SortByScore(f.all_companies), limit),
                               !.queries = f.queries, !.fallback = TRUE,
                               !.status = f.status]

\* the limits the function is called with
Limits == {2, 4, DefaultLimit}

\* the query the server fails on, 0 for none
FailPoints == 0..2

SearchInit ==
    /\ ChatIdle
    /\ FormatIdle
    /\ RunIdle
    /\ ExtractIdle
    /\ DbSearchIdle
    /\ search_args \in [keywords : SeqsUpTo(KeywordPhrases, MaxKeywords),
                        limit : Limits, table : {"A", "B"},
                        fail_at : FailPoints]
    /\ search_result = [companies |-> <<>>]
    /\ search_done = FALSE

\* one call of search_companies_by_keywords on a fresh connection
SearchCompanies ==
    /\ ~search_done
    /\ search_result' =
          search_companies_by_keywords(search_args.keywords, search_args.limit,
                                       search_args.table, "IDLE",
                                       search_args.fail_at)
    /\ search_done' = TRUE
    /\ UNCHANGED <<search_args, chat_vars, format_vars, run_vars, extract_vars,
                   dbsearch_vars>>

SearchNext == SearchCompanies

SearchSpec == SearchInit /\ [][SearchNext]_vars

\* the token is longer than two letters and is no stop word
TokenOK(word) == WordLen(word) > 2 /\ lower(word) \notin stop_words

\* every token of the query string is
QueryOK(q) ==
    \A i \in 1..Len(q.terms) : \A j \in 1..Len(q.terms[i]) :
        TokenOK(q.terms[i][j])

\* C13 as stated: no token of length <= 2 and no stop word appears in the
\* disjunctive query string sent to the store.
C13_NoShortOrStopInQuery ==
    (search_done /\ search_result.queries # <<>>) =>
        QueryOK(search_result.queries[1])

\* C13 amended: the filtered tokens hold no token of length <= 2, no stop
\* word and no token twice; the per-token queries are made of them alone;
\* the disjunctive query string is made of them when at least MinWords of
\* them remain, and is the keywords as they came otherwise.
C13_FilteredTokensOnly ==
    search_done =>
        LET r == search_result
            uw == r.unique_words
        IN /\ \A i \in 1..Len(uw) : TokenOK(uw[i])
           /\ \A i, j \in 1..Len(uw) : lower(uw[i]) = lower(uw[j]) => i = j
           /\ \A k \in 2..Len(r.queries) :
                 QueryOK(r.queries[k]) /\ r.queries[k].terms = <<<<uw[k - 1]>>>>
           /\ r.queries # <<>> =>
                 IF Len(uw) >= 3
                 THEN /\ QueryOK(r.queries[1])
                      /\ r.queries[1].terms = [i \in 1..Len(uw) |-> <<uw[i]>>]
                 ELSE r.queries[1].terms = search_args.keywords

C13_Witness ==
    /\ search_done
    /\ Len(search_result.unique_words) = 3
    /\ Len(search_result.queries) = 4
    /\ Len(IndividualWords(search_args.keywords)) = 5
    /\ \E i \in 1..Len(search_args.keywords) :
           ~TokenOK(search_args.keywords[i][1])

\* the rows the per-token queries returned for company id
TokenScores(queries, id) ==
    {queries[k].rows[n].relevance_score :
        <<k, n>> \in {p \in (2..Len(queries)) \X Companies :
                        /\ p[2] <= Len(queries[p[1]].rows)
                        /\ queries[p[1]].rows[p[2]].id = id}}

\* C14: when the primary query returns fewer than limit // 2 rows, and only
\* then, one query per filtered token is sent, in the order of the tokens,
\* and every entity of the merged result carries the highest score one of
\* these queries gave it; a query the store fails ends the search with an
\* empty result.
C14_FallbackMaxMerge ==
    (search_done /\ search_result.queries # <<>> /\ search_result.queries[1].ok) =>
        LET r == search_result
            q == r.queries
            uw == r.unique_words
            limit == search_args.limit
        IN /\ r.fallback <=> Len(q[1].rows) < limit \div 2
           /\ ~r.fallback => (Len(q) = 1 /\ r.companies = q[1].rows)
           /\ r.fallback =>
                /\ \A k \in 2..Len(q) : q[k].terms = <<<<uw[k - 1]>>>>
                /\ \A k \in 2..(Len(q) - 1) : q[k].ok
                /\ IF q[Len(q)].ok
                   THEN /\ Len(q) = Len(uw) + 1
                        /\ \A i \in 1..Len(r.companies) :
                              LET scores == TokenScores(q, r.companies[i].id) IN
                              /\ scores # {}
                              /\ r.companies[i].relevance_score \in scores
                              /\ \A x \in scores :
                                    x <= r.companies[i].relevance_score
                        /\ \A id \in Companies :
                              (TokenScores(q, id) # {}
                               /\ Len(r.companies) < limit) =>
                                 \E i \in 1..Len(r.companies) :
                                     r.companies[i].id = id
                   ELSE r.companies = <<>> /\ r.raised

C14_Witness ==
    /\ search_done
    /\ search_result.fallback
    /\ ~search_result.raised
    /\ Len(search_result.queries) = 4
    /\ \E i \in 1..Len(search_result.companies) :
          LET scores == TokenScores(search_result.queries,
                                    search_result.companies[i].id)
          IN /\ {1, 2} \subseteq scores
             /\ search_result.companies[i].relevance_score = 2


(* ---------------- the batch pipeline: process_all_incentives ------------ *)

\* the companies table of the batch run
BatchTable == "A"

\* what json.loads finds in the keyword completion, or how the call failed;
\* kind "numbers" is a JSON array whose items are not strings (the item
\* stands for the number)
KeywordReplies ==
    {[kind |-> "api_error", items |-> <<>>],
     [kind |-> "unparsable", items |-> <<>>],
     [kind |-> "numbers", items |-> <<<<"2030">>>>]}
    \cup
    {[kind |-> "list", items |-> k] :
        k \in {<<>>,
               <<<<"de", "transporte">>, <<"logistica">>, <<"TI", "energia">>>>,
               <<<<"logistica">>>>,
               <<<<"de", "transporte">>>>,
               <<<<"para">>>>}}

\* what json.loads finds in the ranking completion, or how the call failed;
\* kind "scalar" is a JSON value that is not an array
RankingReplies ==
    {[kind |-> "api_error", ids |-> <<>>],
     [kind |-> "unparsable", ids |-> <<>>],
     [kind |-> "scalar", ids |-> <<>>]}
    \cup
    {[kind |-> "list", ids |-> l] :
        l \in {<<>>, <<2, 1>>, <<99, 1>>, <<1, 2, 3, 4, 5, 6>>}}

FailureKinds == {"api_error", "unparsable"}

\* a build of extract_keywords_from_incentive without the except clause
OnKeywordsFailure_propagate ==
    [value |-> [kind |-> "list", items |-> <<>>], raised |-> TRUE]

\* the except clause of extract_keywords_from_incentive: return []
OnKeywordsFailure ==
    [value |-> [kind |-> "list", items |-> <<>>], raised |-> FALSE]

\* extract_keywords_from_incentive: json.loads(content) as it comes
extract_keywords_from_incentive(reply) ==
    IF reply.kind \in FailureKinds THEN OnKeywordsFailure
    ELSE [value |-> reply, raised |-> FALSE]

\* rank_companies_for_incentive: json.loads(content) as it comes, [] from
\* the except clause
rank_companies_for_incentive(reply) ==
    IF reply.kind \in FailureKinds THEN [kind |-> "list", ids |-> <<>>]
    ELSE reply

\* a build that starts the timing map anew at every stage
RecordTiming_reset(timing, key) == {key}

\* timing_data[key] = round(..., 2)
RecordTiming(timing, key) == timing \cup {key}

\* the dict stored under results[incentive_id]; has_error says the dict has
\* an 'error' key; stages, failed and cause are ghosts: the stages that ran,
\* the stage that failed and how
RecordResult(incentive, kws, companies, ranked, has_error, error, timing, stages, failed, cause) ==
    [incentive |-> incentive, keywords |-> kws, top_25_companies |-> companies,
     top_5_company_ids |-> ranked, has_error |-> has_error, error |-> error,
     timing |-> timing, stages |-> stages, failed |-> failed, cause |-> cause]

NoRanking == [kind |-> "list", ids |-> <<>>]

\* a build whose loop does not move on to the next record
NextRecord_stay ==
    /\ record_index' = record_index
    /\ main_pc' = "keywords"

\* "continue", or the end of the loop body: the next record, or the finally
\* clause after the last
NextRecord ==
    /\ record_index' = record_index + 1
    /\ main_pc' = IF record_index < Len(incentives) THEN "keywords" ELSE "finally"

\* a build that looks no identifier up
InLookup_any(company_id, company_lookup) == TRUE

\* if company_id in company_lookup
InLookup(company_id, company_lookup) == company_id \in company_lookup

\* the entry create_simplified_results makes of one record without error
Simplify(data) ==
    LET company_lookup == {data.top_25_companies[i].id :
                              i \in 1..Len(data.top_25_companies)}
        ids == data.top_5_company_ids.ids
        kept == SelectSeq(ids, LAMBDA company_id :
                                   InLookup(company_id, company_lookup))
    IN [incentive |-> data.incentive, keywords |-> data.keywords,
        companies |-> [i \in 1..Len(kept) |-> [id |-> kept[i]]]]

\* a build that skips no record
create_simplified_results_all(rs) ==
    [i \in 1..Len(rs) |-> Simplify(rs[i])]

\* create_simplified_results when it returns
create_simplified_results(rs) ==
    LET ok == SelectSeq(rs, LAMBDA data : ~data.has_error)
    IN [i \in 1..Len(ok) |-> Simplify(ok[i])]

\* "for company_id in data['top_5_company_ids']" raises TypeError on a value
\* that is not iterable
SimplifyRaises(rs) ==
    \E i \in 1..Len(rs) :
        ~rs[i].has_error /\ rs[i].top_5_company_ids.kind = "scalar"

(* ------------------------- the two main functions ----------------------- *)

count_vars == <<model_calls, store_actions>>
batch_vars == <<incentives, record_index, record_vars, batch_results,
                batch_raised, output_vars>>

RunInit ==
    /\ ChatIdle
    /\ FormatIdle
    /\ SearchIdle
    /\ ExtractIdle
    /\ DbSearchIdle
    /\ mode \in {"chat", "batch"}
    /\ main_pc = "start"
    /\ connection = "none"
    /\ db_status = "IDLE"
    /\ exit_status = 0
    /\ startup_failure = "none"
    /\ model_calls = 0
    /\ store_actions = 0
    /\ chat_turns = 0
    /\ incentives = <<>>
    /\ record_index = 0
    /\ record_keywords = <<>>
    /\ top_25_companies = <<>>
    /\ timing_data = {}
    /\ stages_run = {}
    /\ batch_results = <<>>
    /\ batch_raised = FALSE
    /\ debug_saved = FALSE
    /\ simplified_results = <<>>
    /\ results_saved = FALSE

\* the exit status after a failure: main of chatbot.py returns 1 to
\* sys.exit; main of correspondence_finder.py returns None and is called
\* without sys.exit
FailureStatus(m) == IF m = "chat" THEN 1 ELSE 0

\* validate_config() at the head of either main; o is "ok", "config" (a
\* database field is missing) or "credential" (the API key is missing)
ValidateConfig(o) ==
    /\ main_pc = "start"
    /\ IF o = "ok"
       THEN /\ main_pc' = "construct"
            /\ UNCHANGED <<exit_status, startup_failure>>
       ELSE /\ main_pc' = "exited"
            /\ exit_status' = FailureStatus(mode)
            /\ startup_failure' = o
    /\ UNCHANGED <<mode, connection, db_status, chat_turns>>
    /\ UNCHANGED count_vars
    /\ UNCHANGED batch_vars
    /\ UNCHANGED <<chat_vars, format_vars, search_vars, extract_vars,
                   dbsearch_vars>>

\* AugustaIncentivesChatbot(): the prompts are loaded, then the store is
\* connected, then the client is made; o says which of them fails
ChatConstruct(o) ==
    /\ mode = "chat"
    /\ main_pc = "construct"
    /\ connection' = IF o \in {"ok", "client"} THEN "open" ELSE connection
    /\ IF o = "ok"
       THEN /\ main_pc' = "chat"
            /\ UNCHANGED <<exit_status, startup_failure>>
       ELSE \* the exception reaches the outer except of main, past the
            \* try/finally that calls cleanup
            /\ main_pc' = "exited"
            /\ exit_status' = FailureStatus(mode)
            /\ startup_failure' = o
    /\ UNCHANGED <<mode, db_status, chat_turns>>
    /\ UNCHANGED count_vars
    /\ UNCHANGED batch_vars
    /\ UNCHANGED <<chat_vars, format_vars, search_vars, extract_vars,
                   dbsearch_vars>>

\* one pass of the loop of start_chat with a message: process_message, whose
\* steps are ProcessMessage .. FinalCall above, issues at least one
\* ModelClient call and n store actions
ChatTurn(n) ==
    /\ mode = "chat"
    /\ main_pc = "chat"
    /\ chat_turns < MaxTurns
    /\ chat_turns' = chat_turns + 1
    /\ model_calls' = model_calls + 1
    /\ store_actions' = store_actions + n
    /\ UNCHANGED <<mode, main_pc, connection, db_status, exit_status,
                   startup_failure>>
    /\ UNCHANGED batch_vars
    /\ UNCHANGED <<chat_vars, format_vars, search_vars, extract_vars,
                   dbsearch_vars>>

\* the user enters quit, exit, bye or q, or interrupts: break; how is
\* "quit" or "interrupt"
LeaveChat(how) ==
    /\ mode = "chat"
    /\ main_pc = "chat"
    /\ main_pc' = "cleanup"
    /\ UNCHANGED <<mode, connection, db_status, exit_status, startup_failure,
                   chat_turns>>
    /\ UNCHANGED count_vars
    /\ UNCHANGED batch_vars
    /\ UNCHANGED <<chat_vars, format_vars, search_vars, extract_vars,
                   dbsearch_vars>>

\* the finally clause of main: chatbot.cleanup(), then return 0
Cleanup ==
    /\ mode = "chat"
    /\ main_pc = "cleanup"
    /\ connection' = "closed"
    /\ main_pc' = "exited"
    /\ exit_status' = 0
    /\ UNCHANGED <<mode, db_status, startup_failure, chat_turns>>
    /\ UNCHANGED count_vars
    /\ UNCHANGED batch_vars
    /\ UNCHANGED <<chat_vars, format_vars, search_vars, extract_vars,
                   dbsearch_vars>>

\* CorrespondenceFinder(DB_CONFIG, OPENAI_CONFIG): makes the client, opens
\* no connection
BatchConstruct(o) ==
    /\ mode = "batch"
    /\ main_pc = "construct"
    /\ IF o = "ok"
       THEN /\ main_pc' = "connect"
            /\ UNCHANGED <<exit_status, startup_failure>>
       ELSE /\ main_pc' = "exited"
            /\ exit_status' = FailureStatus(mode)
            /\ startup_failure' = o
    /\ UNCHANGED <<mode, connection, db_status, chat_turns>>
    /\ UNCHANGED count_vars
    /\ UNCHANGED batch_vars
    /\ UNCHANGED <<chat_vars, format_vars, search_vars, extract_vars,
                   dbsearch_vars>>

\* process_all_incentives up to the try: connect_database(); when it fails
\* {} is returned and main ends with "No results generated"
ConnectDatabase(ok) ==
    /\ mode = "batch"
    /\ main_pc = "connect"
    /\ IF ok
       THEN /\ connection' = "open"
            /\ main_pc' = "fetch"
            /\ UNCHANGED <<exit_status, startup_failure>>
       ELSE /\ main_pc' = "exited"
            /\ exit_status' = FailureStatus(mode)
            /\ startup_failure' = "store"
            /\ UNCHANGED connection
    /\ UNCHANGED <<mode, db_status, chat_turns>>
    /\ UNCHANGED count_vars
    /\ UNCHANGED batch_vars
    /\ UNCHANGED <<chat_vars, format_vars, search_vars, extract_vars,
                   dbsearch_vars>>

\* get_all_incentives() and the test "if not incentives"; n records are
\* found, or the SELECT fails and [] is returned
GetAllIncentives(n, ok) ==
    /\ mode = "batch"
    /\ main_pc = "fetch"
    /\ store_actions' = store_actions + 1
    /\ db_status' = IF ok THEN "INTRANS" ELSE "INERROR"
    /\ incentives' = IF ok THEN [i \in 1..n |-> i] ELSE <<>>
    /\ IF ok /\ n > 0
       THEN record_index' = 1 /\ main_pc' = "keywords"
       ELSE record_index' = 0 /\ main_pc' = "finally"
    /\ UNCHANGED <<mode, connection, exit_status, startup_failure, chat_turns,
                   model_calls>>
    /\ UNCHANGED <<record_vars, batch_results, batch_raised, output_vars>>
    /\ UNCHANGED <<chat_vars, format_vars, search_vars, extract_vars,
                   dbsearch_vars>>

\* the loop body of process_all_incentives up to the search: the keyword
\* stage and, without keywords, the result with 'No keywords extracted'
ExtractKeywords(reply) ==
    /\ mode = "batch"
    /\ main_pc = "keywords"
    /\ LET r == extract_keywords_from_incentive(reply)
           timing == RecordTiming({}, "keyword_extraction_time")
       IN /\ model_calls' = model_calls + 1
          /\ timing_data' = timing
          /\ stages_run' = {"keywords"}
          /\ top_25_companies' = <<>>
          /\ IF r.raised
             THEN /\ batch_raised' = TRUE
                  /\ main_pc' = "finally"
                  /\ UNCHANGED <<record_keywords, batch_results, record_index>>
             ELSE IF r.value.items = <<>>
             THEN /\ batch_results' =
                       Append(batch_results,
                              RecordResult(incentives[record_index], <<>>, <<>>,
                                           NoRanking, TRUE,
                                           "No keywords extracted", timing,
                                           {"keywords"}, "keywords", reply.kind))
                  /\ NextRecord
                  /\ UNCHANGED <<record_keywords, batch_raised>>
             ELSE /\ record_keywords' = r.value
                  /\ main_pc' = "search"
                  /\ UNCHANGED <<batch_results, batch_raised, record_index>>
    /\ UNCHANGED <<mode, connection, db_status, exit_status, startup_failure,
                   chat_turns, store_actions, incentives>>
    /\ UNCHANGED output_vars
    /\ UNCHANGED <<chat_vars, format_vars, search_vars, extract_vars,
                   dbsearch_vars>>

\* the search stage and, without candidates, the result with 'No companies
\* found'; fail_at = 1 says the server fails on the first query. Keywords
\* that are not strings make keyword.split() raise inside the search, which
\* returns [], and then make ', '.join(keywords) raise out of the loop.
SearchStage(fail_at) ==
    /\ mode = "batch"
    /\ main_pc = "search"
    /\ LET timing == RecordTiming(timing_data, "company_search_time")
           stages == stages_run \cup {"search"}
       IN /\ timing_data' = timing
          /\ stages_run' = stages
          /\ IF record_keywords.kind = "numbers"
             THEN /\ batch_raised' = TRUE
                  /\ main_pc' = "finally"
                  /\ UNCHANGED <<top_25_companies, batch_results, record_index,
                                 db_status, store_actions>>
             ELSE LET r == search_companies_by_keywords(record_keywords.items,
                               DefaultLimit, BatchTable, db_status, fail_at)
                  IN /\ db_status' = r.status
                     /\ store_actions' = store_actions + Len(r.queries)
                     /\ UNCHANGED batch_raised
                     /\ IF r.companies = <<>>
                        THEN /\ batch_results' =
                                  Append(batch_results,
                                         RecordResult(incentives[record_index],
                                             record_keywords.items, <<>>,
                                             NoRanking, TRUE,
                                             "No companies found", timing,
                                             stages, "search",
                                             IF r.raised THEN "exception"
                                             ELSE "no_match"))
                             /\ NextRecord
                             /\ UNCHANGED top_25_companies
                        ELSE /\ top_25_companies' = r.companies
                             /\ main_pc' = "rank"
                             /\ UNCHANGED <<batch_results, record_index>>
    /\ UNCHANGED <<mode, connection, exit_status, startup_failure, chat_turns,
                   model_calls, incentives, record_keywords>>
    /\ UNCHANGED output_vars
    /\ UNCHANGED <<chat_vars, format_vars, search_vars, extract_vars,
                   dbsearch_vars>>

\* the ranking stage and the result stored after it
RankStage(reply) ==
    /\ mode = "batch"
    /\ main_pc = "rank"
    /\ LET top_5_company_ids == rank_companies_for_incentive(reply)
           timing == RecordTiming(RecordTiming(timing_data,
                                               "company_ranking_time"),
                                  "total_processing_time")
           stages == stages_run \cup {"ranking"}
       IN /\ model_calls' = model_calls + 1
          /\ timing_data' = timing
          /\ stages_run' = stages
          /\ batch_results' =
                Append(batch_results,
                       RecordResult(incentives[record_index],
                                    record_keywords.items, top_25_companies,
                                    top_5_company_ids, FALSE, "", timing, stages,
                                    IF reply.kind \in FailureKinds
                                    THEN "ranking" ELSE "none",
                                    reply.kind))
          /\ NextRecord
    /\ UNCHANGED <<mode, connection, db_status, exit_status, startup_failure,
                   chat_turns, store_actions, incentives, record_keywords,
                   top_25_companies, batch_raised>>
    /\ UNCHANGED output_vars
    /\ UNCHANGED <<chat_vars, format_vars, search_vars, extract_vars,
                   dbsearch_vars>>

\* the finally clause of process_all_incentives: disconnect_database(); an
\* exception then reaches the except clause of main
DisconnectDatabase ==
    /\ mode = "batch"
    /\ main_pc = "finally"
    /\ connection' = "closed"
    /\ IF batch_raised
       THEN main_pc' = "exited" /\ exit_status' = FailureStatus(mode)
       ELSE main_pc' = "save" /\ UNCHANGED exit_status
    /\ UNCHANGED <<mode, db_status, startup_failure, chat_turns>>
    /\ UNCHANGED count_vars
    /\ UNCHANGED batch_vars
    /\ UNCHANGED <<chat_vars, format_vars, search_vars, extract_vars,
                   dbsearch_vars>>

\* main after process_all_incentives returned: the two artifacts
SaveResults ==
    /\ mode = "batch"
    /\ main_pc = "save"
    /\ main_pc' = "exited"
    /\ exit_status' = 0
    /\ IF batch_results = <<>>
       THEN UNCHANGED output_vars
       ELSE /\ debug_saved' = TRUE
            /\ IF SimplifyRaises(batch_results)
               THEN UNCHANGED <<simplified_results, results_saved>>
               ELSE /\ simplified_results' =
                          create_simplified_results(batch_results)
                    /\ results_saved' = TRUE
    /\ UNCHANGED <<mode, connection, db_status, startup_failure, chat_turns>>
    /\ UNCHANGED count_vars
    /\ UNCHANGED <<incentives, record_index, record_vars, batch_results,
                   batch_raised>>
    /\ UNCHANGED <<chat_vars, format_vars, search_vars, extract_vars,
                   dbsearch_vars>>

RunNext ==
    \/ \E o \in {"ok", "config", "credential"} : ValidateConfig(o)
    \/ \E o \in {"ok", "prompt", "store", "client"} : ChatConstruct(o)
    \/ \E n \in 0..1 : ChatTurn(n)
    \/ \E how \in {"quit", "interrupt"} : LeaveChat(how)
    \/ Cleanup
    \/ \E o \in {"ok", "client"} : BatchConstruct(o)
    \/ \E ok \in BOOLEAN : ConnectDatabase(ok)
    \/ \E n \in 0..MaxIncentives, ok \in BOOLEAN : GetAllIncentives(n, ok)
    \/ \E reply \in KeywordReplies : ExtractKeywords(reply)
    \/ \E fail_at \in 0..1 : SearchStage(fail_at)
    \/ \E reply \in RankingReplies : RankStage(reply)
    \/ DisconnectDatabase
    \/ SaveResults

RunSpec == RunInit /\ [][RunNext]_vars

(* ----------------------- properties of the batch run -------------------- *)

\* the identifiers of the candidates of a record result
CandidateIds(data) ==
    {data.top_25_companies[i].id : i \in 1..Len(data.top_25_companies)}

\* C11: a record whose keyword completion cannot be parsed gets a result with
\* no keywords, no candidates, no ranked ids and an error field; neither
\* search nor ranking runs for it; no exception leaves the keyword stage; and
\* the loop goes on to the next record with the store connection untouched.
C11_UnparsableKeywords ==
    /\ [](\A i \in 1..Len(batch_results) :
            LET data == batch_results[i] IN
            /\ data.incentive = incentives[i]
            /\ (data.failed = "keywords" /\ data.cause = "unparsable") =>
                 /\ data.keywords = <<>>
                 /\ data.top_25_companies = <<>>
                 /\ data.top_5_company_ids = NoRanking
                 /\ data.has_error
                 /\ data.stages = {"keywords"}
                 /\ (i < Len(incentives) /\ ~batch_raised) =>
                       (Len(batch_results) > i \/ record_index = i + 1))
    /\ [][main_pc = "keywords" =>
            /\ ~batch_raised'
            /\ Len(batch_results') > Len(batch_results) =>
                 /\ record_index' = record_index + 1
                 /\ main_pc' = IF record_index < Len(incentives)
                               THEN "keywords" ELSE "finally"
                 /\ UNCHANGED <<connection, db_status, store_actions>>]_vars

C11_Witness ==
    /\ main_pc = "exited"
    /\ results_saved
    /\ Len(batch_results) = 2
    /\ batch_results[1].cause = "unparsable"
    /\ batch_results[1].failed = "keywords"
    /\ batch_results[2].failed = "none"
    /\ batch_results[2].top_5_company_ids.ids = <<2, 1>>

\* C12: a record one of whose three stages failed has an error field and
\* every field downstream of the failed stage empty.
C12_StageFailureTagged ==
    \A i \in 1..Len(batch_results) :
        LET data == batch_results[i] IN
        data.failed # "none" =>
            /\ data.has_error
            /\ data.top_5_company_ids = NoRanking
            /\ data.failed \in {"keywords", "search"} =>
                  data.top_25_companies = <<>>
            /\ data.failed = "keywords" => data.keywords = <<>>

\* C15: every ranked entity of a record in the reduced artifact is, by its
\* identifier, one of the candidates of that record in the full artifact.
C15_RankedAreCandidates ==
    results_saved =>
        \A i \in 1..Len(simplified_results) :
            \E j \in 1..Len(batch_results) :
                /\ batch_results[j].incentive = simplified_results[i].incentive
                /\ \A k \in 1..Len(simplified_results[i].companies) :
                       simplified_results[i].companies[k].id
                           \in CandidateIds(batch_results[j])

C15_Witness ==
    /\ results_saved
    /\ \E i \in 1..Len(simplified_results), j \in 1..Len(batch_results) :
          /\ batch_results[j].incentive = simplified_results[i].incentive
          /\ batch_results[j].top_5_company_ids.ids = <<99, 1>>
          /\ simplified_results[i].companies = <<[id |-> 1]>>

\* C16: the ranked ids of every stored record result are a sequence of at
\* most 5 identifiers.
C16_AtMostFiveRanked ==
    \A i \in 1..Len(batch_results) :
        /\ batch_results[i].top_5_company_ids.kind = "list"
        /\ Len(batch_results[i].top_5_company_ids.ids) <= 5

\* the key of the timing map a stage writes
TimingKey(stage) ==
    CASE stage = "keywords" -> "keyword_extraction_time"
      [] stage = "search" -> "company_search_time"
      [] stage = "ranking" -> "company_ranking_time"

\* C17: every stored record result, failed or not, carries a timing map with
\* an entry for each stage that ran for the record.
C17_TimingPerStage ==
    \A i \in 1..Len(batch_results) :
        LET data == batch_results[i] IN
        /\ "keywords" \in data.stages
        /\ \A stage \in data.stages : TimingKey(stage) \in data.timing

C17_Witness ==
    /\ Len(batch_results) = 2
    /\ batch_results[1].failed = "search"
    /\ batch_results[1].timing =
          {"keyword_extraction_time", "company_search_time"}
    /\ batch_results[2].stages = {"keywords", "search", "ranking"}
    /\ batch_results[2].timing =
          {"keyword_extraction_time", "company_search_time",
           "company_ranking_time", "total_processing_time"}

\* C18: when the run has ended, no store connection it opened is still open.
C18_ConnectionReleased ==
    main_pc = "exited" => connection # "open"

\* C19: a run that ends on a configuration, credential or store failure at
\* startup ends with a non-zero exit status and has issued no ModelClient
\* call and no store action.
C19_StartupFailureFatal ==
    (main_pc = "exited" /\ startup_failure \in {"config", "credential", "store"}) =>
        /\ exit_status # 0
        /\ model_calls = 0
        /\ store_actions = 0


(* --------------------- _extract_sql_queries on its own ------------------ *)

\* the tokens of a text: three backticks followed by the marker sql in
\* either case, three backticks alone ("fence"), white space, a word
TextTokens == {"fence:sql", "fence:SQL", "fence", " ", "a"}

\* the token begins with three backticks
IsFenceToken(t) == t \in {"fence:sql", "fence:SQL", "fence"}

\* what follows the backticks of the token
FenceMarker(t) ==
    CASE t = "fence:sql" -> "sql"
      [] t = "fence:SQL" -> "SQL"
      [] OTHER -> ""

\* the least element of a non-empty set of numbers
Least(S) == CHOOSE i \in S : \A j \in S : i <= j

\* re.findall(sql_pattern, text, re.DOTALL | re.IGNORECASE) on the tokens:
\* the leftmost fence:sql, then lazily up to the next backticks, then on from
\* behind them
RECURSIVE findall(_)
findall(ts) ==
    LET opens == {i \in 1..Len(ts) :
                     /\ IsFenceToken(ts[i])
                     /\ IsSqlFence(Fence(FenceMarker(ts[i]), <<>>))}
    IN IF opens = {} THEN <<>>
       ELSE LET i == Least(opens)
                closes == {j \in (i + 1)..Len(ts) : IsFenceToken(ts[j])}
            IN IF closes = {} THEN <<>>
               ELSE LET j == Least(closes) IN
                    <<Fence(FenceMarker(ts[i]), SubSeq(ts, i + 1, j - 1))>>
                    \o findall(SubSeq(ts, j + 1, Len(ts)))

\* the text as the chunks the pattern finds in it
TextOf(ts) == [kind |-> "completion", chunks |-> findall(ts)]

ExtractInit ==
    /\ ChatIdle
    /\ FormatIdle
    /\ SearchIdle
    /\ RunIdle
    /\ DbSearchIdle
    /\ ext_tokens \in SeqsUpTo(TextTokens, MaxTokens)
    /\ ext_queries = <<>>
    /\ ext_done = FALSE

\* one call of _extract_sql_queries
ExtractSqlQueries ==
    /\ ~ext_done
    /\ ext_queries' = _extract_sql_queries(TextOf(ext_tokens))
    /\ ext_done' = TRUE
    /\ UNCHANGED <<ext_tokens, chat_vars, format_vars, search_vars, run_vars,
                   dbsearch_vars>>

ExtractNext == ExtractSqlQueries

ExtractSpec == ExtractInit /\ [][ExtractNext]_vars

\* the places of the fence tokens of the text
FencePlaces(ts) == {i \in 1..Len(ts) : ts[i] \in {"fence:sql", "fence:SQL", "fence"}}

\* the fence at place i is the n-th of the text
FenceNumber(ts, i) == Cardinality({j \in FencePlaces(ts) : j <= i})

\* the fences of the text pair up: every second one is a bare closing fence
WellFormed(ts) ==
    /\ Cardinality(FencePlaces(ts)) % 2 = 0
    /\ \A i \in FencePlaces(ts) : FenceNumber(ts, i) % 2 = 0 => ts[i] = "fence"

\* the places where an action fence opens, in a well-formed text
ActionFences(ts) ==
    {i \in FencePlaces(ts) :
        FenceNumber(ts, i) % 2 = 1 /\ ts[i] \in {"fence:sql", "fence:SQL"}}

\* what stands between the fence opening at place i and its closing fence
FenceContent(ts, i) ==
    SubSeq(ts, i + 1, Least({j \in FencePlaces(ts) : j > i}) - 1)

IsBlank(b) == \A i \in 1..Len(b) : b[i] = " "

\* q is b without the white space at its two ends
IsTrimOf(q, b) ==
    /\ q # <<>>
    /\ q[1] # " "
    /\ q[Len(q)] # " "
    /\ \E a \in 0..Len(b) :
          /\ a + Len(q) <= Len(b)
          /\ SubSeq(b, a + 1, a + Len(q)) = q
          /\ IsBlank(SubSeq(b, 1, a))
          /\ IsBlank(SubSeq(b, a + Len(q) + 1, Len(b)))

\* the n-th least element of a set of numbers
RECURSIVE Nth(_, _)
Nth(S, n) == IF n = 1 THEN Least(S) ELSE Nth(S \ {Least(S)}, n - 1)

\* C21 as stated: a well-formed text with N action fences gives exactly N
\* trimmed contents in source order, none when N = 0.
C21_OnePerFence ==
    (ext_done /\ WellFormed(ext_tokens)) =>
        LET fences == ActionFences(ext_tokens) IN
        /\ Len(ext_queries) = Cardinality(fences)
        /\ \A k \in 1..Len(ext_queries) :
              IsTrimOf(ext_queries[k],
                       FenceContent(ext_tokens, Nth(fences, k)))

\* C21 amended: a well-formed text gives, in source order, the trimmed
\* content of each action fence whose content is not blank, and nothing
\* else; the marker sql opens an action fence in either case; a text without
\* action fences gives the empty sequence.
C21_OnePerNonBlankFence ==
    (ext_done /\ WellFormed(ext_tokens)) =>
        LET fences == {i \in ActionFences(ext_tokens) :
                          ~IsBlank(FenceContent(ext_tokens, i))}
        IN /\ Len(ext_queries) = Cardinality(fences)
           /\ \A k \in 1..Len(ext_queries) :
                 IsTrimOf(ext_queries[k],
                          FenceContent(ext_tokens, Nth(fences, k)))

C21_Witness ==
    /\ ext_done
    /\ ext_tokens = <<"fence:sql", " ", "a", "fence", "fence:SQL", "fence">>
    /\ ext_queries = <<<<"a">>>>


(* ------- search_companies and search_incentives (database_setup.py) ----- *)

\* the search types the two methods have a branch for
ValidSearchTypes == {"fulltext", "like", "regex"}

\* the search types a caller may pass
SearchTypes == ValidSearchTypes \cup {"invalid", "FULLTEXT", ""}

\* a build whose except clause is "except Exception"
Caught_any(exc) == TRUE

\* except psycopg2.Error
Caught(exc) == exc = "psycopg2.Error"

\* the body both methods share: table is "companies" or "incentives", n the
\* rows of it that match, connected says connect() has made the cursor,
\* fails that the server fails on the query
SearchTable(table, search_type, limit, n, connected, fails) ==
    LET exc == IF search_type \notin ValidSearchTypes THEN "ValueError"
               ELSE IF ~connected THEN "AttributeError"
               ELSE IF fails THEN "psycopg2.Error"
               ELSE "none"
        sent == IF search_type \in ValidSearchTypes /\ connected
                THEN <<[table |-> table, search_type |-> search_type]>>
                ELSE <<>>
    IN IF exc = "none"
       THEN [raised |-> "none", rows |-> Min(n, limit), queries |-> sent]
       ELSE IF Caught(exc)
       THEN [raised |-> "none", rows |-> 0, queries |-> sent]
       ELSE [raised |-> exc, rows |-> 0, queries |-> sent]

search_companies(search_type, limit, n, connected, fails) ==
    SearchTable("companies", search_type, limit, n, connected, fails)

search_incentives(search_type, limit, n, connected, fails) ==
    SearchTable("incentives", search_type, limit, n, connected, fails)

DbSearchInit ==
    /\ ChatIdle
    /\ FormatIdle
    /\ SearchIdle
    /\ RunIdle
    /\ ExtractIdle
    /\ dbs_args \in [method : {"search_companies", "search_incentives"},
                     search_type : SearchTypes, limit : 1..2,
                     n : 0..MaxMatches, connected : BOOLEAN, fails : BOOLEAN]
    /\ dbs_result = [raised |-> "none"]
    /\ dbs_done = FALSE

\* one call of search_companies or of search_incentives
DbSearch ==
    /\ ~dbs_done
    /\ dbs_result' =
          IF dbs_args.method = "search_companies"
          THEN search_companies(dbs_args.search_type, dbs_args.limit,
                                dbs_args.n, dbs_args.connected, dbs_args.fails)
          ELSE search_incentives(dbs_args.search_type, dbs_args.limit,
                                 dbs_args.n, dbs_args.connected, dbs_args.fails)
    /\ dbs_done' = TRUE
    /\ UNCHANGED <<dbs_args, chat_vars, format_vars, search_vars, run_vars,
                   extract_vars>>

DbSearchNext == DbSearch

DbSearchSpec == DbSearchInit /\ [][DbSearchNext]_vars

\* C22: a call of search_companies or search_incentives with a search_type
\* other than 'fulltext', 'like' or 'regex' raises ValueError to its caller
\* and sends no query to the store.
C22_InvalidSearchTypeRaises ==
    (dbs_done /\ dbs_args.search_type \notin {"fulltext", "like", "regex"}) =>
        /\ dbs_result.raised = "ValueError"
        /\ dbs_result.queries = <<>>

C22_Witness ==
    /\ dbs_done
    /\ dbs_args.method = "search_incentives"
    /\ dbs_args.search_type = "FULLTEXT"
    /\ dbs_args.connected
    /\ dbs_args.n > 0
    /\ dbs_result.raised = "ValueError"


(* ------------- the chat loop with actions that return no rows ----------- *)

\* what the ModelClient may answer in these sessions
FeedbackOutcomes == {Plain, Writes, Three}

FeedbackNext ==
    \/ \E m \in UserMessages : ProcessMessage(m)
    \/ \E o \in FeedbackOutcomes : GetAIResponse(o)
    \/ \E o \in Outcomes : ExecuteQuery(o)
    \/ Decide
    \/ \E o \in FeedbackOutcomes : FinalCall(o)

FeedbackSpec == Init /\ [][FeedbackNext]_vars

\* every request of the batch was a non-read action that succeeded and
\* returned nothing
AllWithoutOutput ==
    /\ query_results # <<>>
    /\ \A i \in 1..Len(query_results) :
          /\ ~IsSelect(query_results[i].query)
          /\ query_results[i].success
          /\ query_results[i].results = <<>>

\* C23: when every executed request was a non-data-returning action without
\* output, the step after the executor ends the message with the raw
\* completion as the answer, appends no decision turn and leads to no
\* further ModelClient call.
C23_EmptyFeedbackEnds ==
    [][(pc = "exec" /\ ExecDone(sql_queries, query_results) /\ AllWithoutOutput) =>
          /\ pc' = "idle"
          /\ response' = ai_response
          /\ conversation_history' = conversation_history]_vars

\* C24: the formatted block of a non-empty batch has at least one line per
\* result, so the loop is never left through the empty-feedback branch and
\* a decision turn is what follows every executed batch.
C24_FeedbackNeverEmpty ==
    /\ exit_path # "empty_feedback"
    /\ Len(_format_query_results(query_results)) >= Len(query_results)
    /\ (pc = "exec" /\ ExecDone(sql_queries, query_results)) =>
          /\ query_results # <<>>
          /\ _format_query_results(query_results) # <<>>
    /\ (pc = "loop" /\ query_results # <<>>) =>
          /\ Last(conversation_history).role = "user"
          /\ Last(conversation_history).content.kind = "decision"
          /\ Last(conversation_history).content.query_output # <<>>

C24_Witness ==
    /\ pc = "loop"
    /\ AllWithoutOutput
    /\ Len(query_results) = 2
    /\ Last(conversation_history).content.kind = "decision"
    /\ Len(Last(conversation_history).content.query_output) = 2

\* C25: when process_message has returned, the text it returned is the
\* content of the last turn of conversation_history, and that turn is an
\* assistant turn.
C25_AnswerIsLastTurn ==
    (pc = "idle" /\ exit_path \in {"no_actions", "empty_feedback", "forced_final"}) =>
        /\ conversation_history # <<>>
        /\ Last(conversation_history) = Turn("assistant", response)

C25_Witness ==
    /\ pc = "idle"
    /\ exit_path = "forced_final"
    /\ Last(conversation_history) = Turn("assistant", response)
    /\ conversation_history[Len(conversation_history) - 1] =
          Turn("user", final_message(original_user_message))


(* ------------------- more properties of the batch run ------------------- *)

\* the stages a stored record can have gone through
StagePrefixes ==
    {{"keywords"}, {"keywords", "search"}, {"keywords", "search", "ranking"}}

\* C26: for each record the stages run at most once and in the order
\* keywords, search, ranking; the search runs only with a non-empty keyword
\* list and the ranking only with at least one candidate, so a record takes
\* at most two ModelClient calls; and no stage of the next record runs
\* before the result of the current one is stored.
C26_StagePipeline ==
    /\ [](mode = "batch" =>
            /\ \A i \in 1..Len(batch_results) :
                  LET data == batch_results[i] IN
                  /\ data.stages \in StagePrefixes
                  /\ "search" \in data.stages => data.keywords # <<>>
                  /\ "ranking" \in data.stages => data.top_25_companies # <<>>
            /\ model_calls <= 2 * Len(batch_results)
                              + (IF main_pc \in {"search", "rank"} \/ batch_raised
                                 THEN 1 ELSE 0))
    /\ [][mode = "batch" =>
            /\ model_calls' # model_calls =>
                 /\ model_calls' = model_calls + 1
                 /\ main_pc \in {"keywords", "rank"}
            /\ (main_pc = "keywords" /\ model_calls' # model_calls) =>
                 /\ stages_run' = {"keywords"}
                 /\ Len(batch_results) = record_index - 1
            /\ ("search" \in stages_run' /\ "search" \notin stages_run) =>
                 /\ stages_run = {"keywords"}
                 /\ record_keywords.items # <<>>
            /\ ("ranking" \in stages_run' /\ "ranking" \notin stages_run) =>
                 /\ stages_run = {"keywords", "search"}
                 /\ top_25_companies # <<>>
                 /\ model_calls' = model_calls + 1
            /\ (record_index > 0 /\ record_index' # record_index) =>
                 /\ record_index' = record_index + 1
                 /\ Len(batch_results') = record_index]_vars

C26_Witness ==
    /\ mode = "batch"
    /\ Len(batch_results) = 1
    /\ batch_results[1].stages = {"keywords", "search", "ranking"}
    /\ record_index = 2
    /\ main_pc = "rank"
    /\ stages_run = {"keywords", "search"}
    /\ model_calls = 3


(* ---------------- more properties of the candidate search --------------- *)

\* the filtered tokens as the terms of a disjunction
TokenTerms(unique_words) == [i \in 1..Len(unique_words) |-> <<unique_words[i]>>]

\* C27: the terms of the disjunctive query are the filtered tokens when at
\* least three tokens survive the filter, and the keyword phrases as they
\* came when fewer than three survive.
C27_QueryTerms ==
    (search_done /\ search_args.keywords # <<>>) =>
        /\ Len(search_result.queries) >= 1
        /\ search_result.unique_words =
              UniqueWords(IndividualWords(search_args.keywords), {})
        /\ Len(search_result.unique_words) >= MinWords =>
              search_result.queries[1].terms =
                  TokenTerms(search_result.unique_words)
        /\ Len(search_result.unique_words) < MinWords =>
              search_result.queries[1].terms = search_args.keywords

C27_Witness ==
    /\ search_done
    /\ Len(search_result.unique_words) = 2
    /\ Len(search_args.keywords) = 3
    /\ search_result.queries[1].terms = search_args.keywords
    /\ search_result.queries[1].terms # TokenTerms(search_result.unique_words)
    /\ search_result.queries[1].ok

\* C28: the candidates returned are at most limit, hold no entity
\* identifier twice and are in non-increasing order of relevance score,
\* whether they come from the primary query or from the per-token queries.
C28_BoundedDistinctSorted ==
    search_done =>
        LET c == search_result.companies IN
        /\ Len(c) <= search_args.limit
        /\ \A i, j \in 1..Len(c) : c[i].id = c[j].id => i = j
        /\ \A i \in 1..(Len(c) - 1) :
              c[i].relevance_score >= c[i + 1].relevance_score

\* the per-token path, with rows that the merge holds in another order than
\* the one returned
C28_Witness ==
    /\ search_done
    /\ search_result.fallback
    /\ Len(search_result.companies) = 3
    /\ search_result.queries[2].rows # <<>>
    /\ search_result.companies[1].id # search_result.queries[2].rows[1].id
    /\ search_result.companies[1].relevance_score >
          search_result.companies[3].relevance_score

\* C29: whenever the per-token queries run, the candidates returned are at
\* least as many as the rows the primary query had returned.
C29_FallbackKeepsCoverage ==
    (search_done /\ search_result.fallback) =>
        Len(search_result.companies) >= Len(search_result.queries[1].rows)

\* the loss without any failure of the store: the primary query matched
\* through a word the filter drops
C29_LossWithoutFailure ==
    (search_done /\ search_result.fallback /\ ~search_result.raised) =>
        Len(search_result.companies) >= Len(search_result.queries[1].rows)


(* ------------------------ the two artifacts of a run --------------------- *)

\* the records of the debug artifact that have no error field
WithoutError == SelectSeq(batch_results, LAMBDA data : ~data.has_error)

====
